---- MODULE Spec2Model ----
(***************************************************************************)
(* A model of the HTTP server of src/main.rs: the listener's accept loop,  *)
(* one worker thread per accepted connection, the request parser, the      *)
(* router with its handlers, content negotiation, and the directory that   *)
(* the /files/ routes read and write.                                      *)
(*                                                                         *)
(* Text is modelled as sequences of one-character strings, so that every   *)
(* string operation of the source (lines, split_whitespace, split_once,    *)
(* trim, to_lowercase, find, starts_with, slicing) is computed the way the *)
(* standard library computes it.                                           *)
(***************************************************************************)
EXTENDS Integers, Sequences, FiniteSets, TLC

(***************************************************************************)
(* Characters and the string operations of the standard library.           *)
(***************************************************************************)
CR == "\r"
LF == "\n"
SP == " "
HT == "\t"

CRLF == <<CR, LF>>

IsWhitespace(c) == c \in {SP, HT, CR, LF}

UpperChars ==
    <<"A","B","C","D","E","F","G","H","I","J","K","L","M",
      "N","O","P","Q","R","S","T","U","V","W","X","Y","Z">>

LowerChars ==
    <<"a","b","c","d","e","f","g","h","i","j","k","l","m",
      "n","o","p","q","r","s","t","u","v","w","x","y","z">>

\* char::to_lowercase on the ASCII range.
char_to_lowercase(c) ==
    IF \E i \in DOMAIN UpperChars : UpperChars[i] = c
    THEN LowerChars[CHOOSE i \in DOMAIN UpperChars : UpperChars[i] = c]
    ELSE c

\* str::to_lowercase
to_lowercase(s) == [i \in 1..Len(s) |-> char_to_lowercase(s[i])]

\* &s[from..]  (from is a 0-based byte offset, as in the source)
SliceFrom(s, from) == SubSeq(s, from + 1, Len(s))

\* str::starts_with
starts_with(s, p) == Len(s) >= Len(p) /\ SubSeq(s, 1, Len(p)) = p

\* str::find(pat): the 0-based offset of the first occurrence, or -1 (None).
find(s, pat) ==
    LET hits == {i \in 0..(Len(s) - Len(pat)) : SubSeq(s, i + 1, i + Len(pat)) = pat}
    IN  IF hits = {} THEN -1 ELSE CHOOSE i \in hits : \A j \in hits : i <= j

\* str::trim: leading and trailing whitespace removed.
trim(s) ==
    LET keep == {i \in 1..Len(s) : ~IsWhitespace(s[i])}
    IN  IF keep = {} THEN <<>>
        ELSE LET lo == CHOOSE i \in keep : \A j \in keep : i <= j
                 hi == CHOOSE i \in keep : \A j \in keep : j <= i
             IN  SubSeq(s, lo, hi)

\* str::split(c): the pieces between the separators, empty pieces included;
\* n separators give n + 1 pieces.
RECURSIVE split(_, _)
split(s, c) ==
    LET seps == {i \in 1..Len(s) : s[i] = c}
    IN  IF seps = {} THEN <<s>>
        ELSE LET k == CHOOSE i \in seps : \A j \in seps : i <= j
             IN  <<SubSeq(s, 1, k - 1)>> \o split(SubSeq(s, k + 1, Len(s)), c)

\* str::split_once(c): the text before and after the first separator.
split_once(s, c) ==
    LET seps == {i \in 1..Len(s) : s[i] = c}
    IN  IF seps = {} THEN [some |-> FALSE, key |-> <<>>, value |-> <<>>]
        ELSE LET k == CHOOSE i \in seps : \A j \in seps : i <= j
             IN  [some |-> TRUE, key |-> SubSeq(s, 1, k - 1),
                  value |-> SubSeq(s, k + 1, Len(s))]

\* str::split_whitespace: the maximal runs of non-whitespace characters.
RECURSIVE split_whitespace(_)
split_whitespace(s) ==
    LET keep == {i \in 1..Len(s) : ~IsWhitespace(s[i])}
    IN  IF keep = {} THEN <<>>
        ELSE LET lo   == CHOOSE i \in keep : \A j \in keep : i <= j
                 stop == {i \in lo..Len(s) : IsWhitespace(s[i])}
                 hi   == IF stop = {} THEN Len(s) + 1
                         ELSE CHOOSE i \in stop : \A j \in stop : i <= j
             IN  <<SubSeq(s, lo, hi - 1)>> \o split_whitespace(SubSeq(s, hi, Len(s)))

\* One line of str::lines: a line that ended in "\n" loses that and one "\r"
\* before it.
StripCR(l) ==
    IF Len(l) > 0 /\ l[Len(l)] = CR THEN SubSeq(l, 1, Len(l) - 1) ELSE l

\* str::lines: the text split at every "\n"; each terminated line is given
\* without its "\n" or "\r\n"; a last line with no terminator is given as it
\* is, and nothing is given for the empty text after the last terminator.
lines(s) ==
    LET pieces == split(s, LF)
        n      == Len(pieces)
        done   == [i \in 1..(n - 1) |-> StripCR(pieces[i])]
    IN  IF pieces[n] = <<>> THEN done ELSE Append(done, pieces[n])

\* usize::to_string
RECURSIVE to_string(_)
to_string(n) ==
    LET digits == <<"0","1","2","3","4","5","6","7","8","9">>
    IN  IF n < 10 THEN <<digits[n + 1]>>
        ELSE Append(to_string(n \div 10), digits[(n % 10) + 1])

\* Iterator::find: of the indices of the elements that satisfy the closure,
\* the first, or 0 when there is none.
first_of(hits) ==
    IF hits = {} THEN 0 ELSE CHOOSE i \in hits : \A j \in hits : i <= j

\* Option<T>
None == [some |-> FALSE, val |-> <<>>]
Some(v) == [some |-> TRUE, val |-> v]

(***************************************************************************)
(* The string literals of the source.                                      *)
(***************************************************************************)
S_GET == <<"G","E","T">>
S_POST == <<"P","O","S","T">>
S_ROOT == <<"/">>
S_USER_AGENT_PATH == <<"/","u","s","e","r","-","a","g","e","n","t">>
S_ECHO_PREFIX == <<"/","e","c","h","o","/">>
S_FILES_PREFIX == <<"/","f","i","l","e","s","/">>
S_HTTP11 == <<"H","T","T","P","/","1",".","1">>
S_HELLO == <<"H","e","l","l","o",","," ","W","o","r","l","d","!">>
S_TEXT_PLAIN == <<"t","e","x","t","/","p","l","a","i","n">>
S_OCTET_STREAM ==
    <<"a","p","p","l","i","c","a","t","i","o","n","/","o","c","t","e","t","-",
      "s","t","r","e","a","m">>
S_CONTENT_TYPE == <<"C","o","n","t","e","n","t","-","T","y","p","e">>
S_CONTENT_LENGTH ==
    <<"C","o","n","t","e","n","t","-","L","e","n","g","t","h">>
S_CONTENT_ENCODING ==
    <<"C","o","n","t","e","n","t","-","E","n","c","o","d","i","n","g">>
S_ACCEPT_ENCODING_LC ==
    <<"a","c","c","e","p","t","-","e","n","c","o","d","i","n","g">>
S_USER_AGENT == <<"U","s","e","r","-","A","g","e","n","t">>
S_GZIP == <<"g","z","i","p">>
S_ZLIB == <<"z","l","i","b">>
S_OK == <<"O","K">>
S_BAD_REQUEST == <<"B","a","d"," ","R","e","q","u","e","s","t">>
S_NOT_FOUND == <<"N","o","t"," ","F","o","u","n","d">>
S_METHOD_NOT_ALLOWED ==
    <<"M","e","t","h","o","d"," ","N","o","t"," ","A","l","l","o","w","e",
      "d">>
S_CREATED == <<"C","r","e","a","t","e","d">>
S_INTERNAL_SERVER_ERROR ==
    <<"I","n","t","e","r","n","a","l"," ","S","e","r","v","e","r"," ","E","r",
      "r","o","r">>

\* let mut buffer = [0; 1024]
BUFFER_SIZE == 1024

(***************************************************************************)
(* CompressionUtil                                                         *)
(***************************************************************************)
\* enum CompressionScheme
Gzip == "Gzip"
Zlib == "Zlib"

\* Option<CompressionScheme>::None
NoScheme == "None"

supported_schemes == <<Gzip, Zlib>>

scheme_to_header(scheme) == IF scheme = Gzip THEN S_GZIP ELSE S_ZLIB

\* The bytes an encoder gives when it succeeds.  The encoders are those of
\* the flate2 crate; what the server relies on is the container each one
\* writes around the deflate stream: gzip a 10-byte header (magic 1f 8b) and
\* an 8-byte trailer (CRC-32, length), zlib a 2-byte header (78 9c) and a
\* 4-byte trailer (Adler-32).  The deflate stream itself is kept as the data
\* it encodes.  The output is never the input, the two schemes never agree,
\* and the length changes.
compress(data, scheme) ==
    IF scheme = Gzip
    THEN <<"1f","8b","08","00","00","00","00","00","00","ff">> \o data
         \o <<"crc32","crc32","crc32","crc32","isize","isize","isize","isize">>
    ELSE <<"78","9c">> \o data \o <<"adler","adler","adler","adler">>

\* negotiate_compression taking the first of the client's encodings that is
\* supported, in the client's order.
negotiate_compression_client_order(accept_encoding) ==
    LET pieces    == split(accept_encoding, ",")
        encodings == [i \in DOMAIN pieces |-> to_lowercase(trim(pieces[i]))]
        Supported(e) ==
            \E i \in DOMAIN supported_schemes :
                e = to_lowercase(scheme_to_header(supported_schemes[i]))
        k == first_of({i \in DOMAIN encodings : Supported(encodings[i])})
    IN  IF k = 0 THEN NoScheme
        ELSE IF encodings[k] = S_GZIP THEN Gzip ELSE Zlib

negotiate_compression(accept_encoding) ==
    LET pieces    == split(accept_encoding, ",")
        encodings == [i \in DOMAIN pieces |-> to_lowercase(trim(pieces[i]))]
        Accepted(scheme) ==
            \E i \in DOMAIN encodings :
                encodings[i] = to_lowercase(scheme_to_header(scheme))
        k == first_of({i \in DOMAIN supported_schemes : Accepted(supported_schemes[i])})
    IN  IF k = 0 THEN NoScheme ELSE supported_schemes[k]

(***************************************************************************)
(* HttpResponse                                                            *)
(***************************************************************************)
HttpResponse_new(status_code, status_message) ==
    [status_code |-> status_code, status_message |-> status_message,
     headers |-> <<>>, body |-> <<>>]

with_body(self, body, content_type) ==
    [self EXCEPT !.body = body,
                 !.headers = self.headers
                     \o << <<S_CONTENT_TYPE, content_type>>,
                           <<S_CONTENT_LENGTH, to_string(Len(body))>> >>]

with_header(self, key, value) ==
    [self EXCEPT !.headers = Append(self.headers, <<key, value>>)]

RECURSIVE concat(_)
concat(ss) == IF ss = <<>> THEN <<>> ELSE Head(ss) \o concat(Tail(ss))

to_bytes(self) ==
    LET status_line == S_HTTP11 \o <<SP>> \o to_string(self.status_code)
                           \o <<SP>> \o self.status_message \o CRLF
        headers == concat([i \in DOMAIN self.headers |->
                              self.headers[i][1] \o <<":", SP>>
                                  \o self.headers[i][2] \o CRLF])
    IN  status_line \o headers \o CRLF \o self.body

(***************************************************************************)
(* Router: parsing                                                         *)
(***************************************************************************)
ParseError == [ok |-> FALSE, method |-> <<>>, path |-> <<>>,
               headers |-> <<>>, body |-> None]

\* for line in lines.take_while(|l| !l.is_empty()): the header lines, each
\* split at its first colon; a line with no colon gives nothing.
RECURSIVE parse_headers(_)
parse_headers(ls) ==
    IF ls = <<>> \/ Head(ls) = <<>> THEN <<>>
    ELSE LET kv == split_once(Head(ls), ":")
         IN  (IF kv.some THEN << <<trim(kv.key), trim(kv.value)>> >> ELSE <<>>)
                 \o parse_headers(Tail(ls))

\* parse_request accepting a request line of three tokens or more.
parse_request_three_or_more(raw_request) ==
    LET ls == lines(raw_request)
    IN  IF ls = <<>> THEN ParseError
        ELSE LET parts == split_whitespace(Head(ls))
             IN  IF Len(parts) < 3 THEN ParseError
                 ELSE LET body_start == find(raw_request, CRLF \o CRLF)
                      IN  [ok      |-> TRUE,
                           method  |-> parts[1],
                           path    |-> parts[2],
                           headers |-> parse_headers(Tail(ls)),
                           body    |-> IF body_start >= 0
                                       THEN Some(SliceFrom(raw_request, body_start + 4))
                                       ELSE None]

\* parse_request taking Content-Length for the length of the body: no more
\* of what follows the blank line than the header's value says.
parse_request_content_length(raw_request) ==
    LET ls == lines(raw_request)
    IN  IF ls = <<>> THEN ParseError
        ELSE LET parts == split_whitespace(Head(ls))
             IN  IF Len(parts) # 3 THEN ParseError
                 ELSE LET body_start == find(raw_request, CRLF \o CRLF)
                          headers == parse_headers(Tail(ls))
                          rest == SliceFrom(raw_request, body_start + 4)
                          said == {n \in 0..Len(rest) : \E i \in DOMAIN headers :
                                      headers[i] = <<S_CONTENT_LENGTH, to_string(n)>>}
                      IN  [ok      |-> TRUE,
                           method  |-> parts[1],
                           path    |-> parts[2],
                           headers |-> headers,
                           body    |-> IF body_start < 0 THEN None
                                       ELSE IF said = {} THEN Some(rest)
                                       ELSE Some(SubSeq(rest, 1, CHOOSE n \in said : TRUE))]

parse_request(raw_request) ==
    LET ls == lines(raw_request)
    IN  IF ls = <<>> THEN ParseError
        ELSE LET parts == split_whitespace(Head(ls))
             IN  IF Len(parts) # 3 THEN ParseError
                 ELSE LET body_start == find(raw_request, CRLF \o CRLF)
                      IN  [ok      |-> TRUE,
                           method  |-> parts[1],
                           path    |-> parts[2],
                           headers |-> parse_headers(Tail(ls)),
                           body    |-> IF body_start >= 0
                                       THEN Some(SliceFrom(raw_request, body_start + 4))
                                       ELSE None]

(***************************************************************************)
(* Router: dispatch and the handlers that touch no file                    *)
(***************************************************************************)
\* An encoder either gives its output or fails with an I/O error
\* (io::Result<Vec<u8>>); encoder_ok says which, and is the environment's
\* choice.
\* compress_response with the length taken before the body is compressed.
compress_response_length_before(body, content_type, compression, encoder_ok) ==
    IF compression # NoScheme /\ encoder_ok
    THEN with_header(
             [with_body(HttpResponse_new(200, S_OK), body, content_type)
                 EXCEPT !.body = compress(body, compression)],
             S_CONTENT_ENCODING, scheme_to_header(compression))
    ELSE with_body(HttpResponse_new(200, S_OK), body, content_type)

\* compress_response naming the scheme in Content-Encoding also when the
\* encoder failed and the body goes out as it is.
compress_response_always_labelled(body, content_type, compression, encoder_ok) ==
    IF compression # NoScheme
    THEN with_header(
             with_body(HttpResponse_new(200, S_OK),
                       IF encoder_ok THEN compress(body, compression) ELSE body,
                       content_type),
             S_CONTENT_ENCODING, scheme_to_header(compression))
    ELSE with_body(HttpResponse_new(200, S_OK), body, content_type)

\* compress_response giving up when the encoder fails: 500 and no body.
compress_response_failing(body, content_type, compression, encoder_ok) ==
    IF compression # NoScheme
    THEN IF encoder_ok
         THEN with_header(
                  with_body(HttpResponse_new(200, S_OK),
                            compress(body, compression), content_type),
                  S_CONTENT_ENCODING, scheme_to_header(compression))
         ELSE HttpResponse_new(500, S_INTERNAL_SERVER_ERROR)
    ELSE with_body(HttpResponse_new(200, S_OK), body, content_type)

compress_response(body, content_type, compression, encoder_ok) ==
    IF compression # NoScheme /\ encoder_ok
    THEN with_header(
             with_body(HttpResponse_new(200, S_OK),
                       compress(body, compression), content_type),
             S_CONTENT_ENCODING, scheme_to_header(compression))
    ELSE with_body(HttpResponse_new(200, S_OK), body, content_type)

not_found == HttpResponse_new(404, S_NOT_FOUND)

method_not_allowed == HttpResponse_new(405, S_METHOD_NOT_ALLOWED)

hello_world(compression, encoder_ok) ==
    compress_response(S_HELLO, S_TEXT_PLAIN, compression, encoder_ok)

\* user_agent finding the header whatever the case of its name.
user_agent_any_case(req, compression, encoder_ok) ==
    LET IsUserAgent(h) == to_lowercase(h[1]) = to_lowercase(S_USER_AGENT)
        k == first_of({i \in DOMAIN req.headers : IsUserAgent(req.headers[i])})
    IN  IF k = 0 THEN HttpResponse_new(400, S_BAD_REQUEST)
        ELSE compress_response(req.headers[k][2], S_TEXT_PLAIN,
                               compression, encoder_ok)

user_agent(req, compression, encoder_ok) ==
    LET IsUserAgent(h) == h[1] = S_USER_AGENT
        k == first_of({i \in DOMAIN req.headers : IsUserAgent(req.headers[i])})
    IN  IF k = 0 THEN HttpResponse_new(400, S_BAD_REQUEST)
        ELSE compress_response(req.headers[k][2], S_TEXT_PLAIN,
                               compression, encoder_ok)

echo(path, compression, encoder_ok) ==
    compress_response(SliceFrom(path, 6), S_TEXT_PLAIN, compression, encoder_ok)

\* The first statement of handle_request: the scheme negotiated from the
\* first header named accept-encoding, whatever its case.
\* compression_scheme taking the first accept-encoding header that names a
\* supported scheme.
compression_scheme_any_header(req) ==
    LET Negotiates(h) == /\ to_lowercase(h[1]) = S_ACCEPT_ENCODING_LC
                         /\ negotiate_compression(h[2]) # NoScheme
        k == first_of({i \in DOMAIN req.headers : Negotiates(req.headers[i])})
    IN  IF k = 0 THEN NoScheme ELSE negotiate_compression(req.headers[k][2])

compression_scheme(req) ==
    LET IsAcceptEncoding(h) == to_lowercase(h[1]) = S_ACCEPT_ENCODING_LC
        k == first_of({i \in DOMAIN req.headers : IsAcceptEncoding(req.headers[i])})
    IN  IF k = 0 THEN NoScheme ELSE negotiate_compression(req.headers[k][2])

\* The match of handle_request: the handler that the first matching arm
\* calls.
\* handle_request with the two exact routes matched for every method.
handle_request_any_method(req) ==
    IF req.path = S_ROOT THEN "hello_world"
    ELSE IF req.path = S_USER_AGENT_PATH THEN "user_agent"
    ELSE IF starts_with(req.path, S_ECHO_PREFIX) THEN "echo"
    ELSE IF starts_with(req.path, S_FILES_PREFIX)
         THEN IF req.method = S_GET THEN "serve_file"
              ELSE IF req.method = S_POST THEN "create_file"
              ELSE "method_not_allowed"
    ELSE "not_found"

handle_request(req) ==
    IF req.method = S_GET /\ req.path = S_ROOT THEN "hello_world"
    ELSE IF req.method = S_GET /\ req.path = S_USER_AGENT_PATH THEN "user_agent"
    ELSE IF starts_with(req.path, S_ECHO_PREFIX) THEN "echo"
    ELSE IF starts_with(req.path, S_FILES_PREFIX)
         THEN IF req.method = S_GET THEN "serve_file"
              ELSE IF req.method = S_POST THEN "create_file"
              ELSE "method_not_allowed"
    ELSE "not_found"

\* let filename = &path[7..]
filename_of(req) == SliceFrom(req.path, 7)

(***************************************************************************)
(* The file system the /files/ routes work on.                             *)
(*                                                                         *)
(* A path is resolved as the operating system resolves it: component by    *)
(* component from the root, ".." stepping to the parent, every component   *)
(* before the last one having to be a directory.  A resolved path is the   *)
(* sequence of its component names.                                        *)
(***************************************************************************)
\* ServerConfig.directory
directory == <<"/","s","r","v">>

\* The directories there are, and those the server may create files in.
Dirs == { <<>>, << <<"s","r","v">> >>, << <<"t","m","p">> >> }
WritableDirs == { << <<"s","r","v">> >>, << <<"t","m","p">> >> }

\* PathBuf::join: an absolute path replaces the base; anything else is put
\* after the base and a separator.
path_join(base, path) ==
    IF starts_with(path, <<"/">>) THEN path
    ELSE IF base # <<>> /\ base[Len(base)] = "/" THEN base \o path
    ELSE base \o <<"/">> \o path

\* The walk over the components cs from the directory at: the resolved path,
\* or failure when a component that is stepped through is no directory.
RECURSIVE walk(_, _)
walk(at, cs) ==
    IF cs = <<>> THEN [ok |-> TRUE, key |-> at]
    ELSE IF at \notin Dirs THEN [ok |-> FALSE, key |-> at]
    ELSE IF Head(cs) = <<>> \/ Head(cs) = <<".">> THEN walk(at, Tail(cs))
    ELSE IF Head(cs) = <<".", ".">>
         THEN walk(IF at = <<>> THEN at ELSE SubSeq(at, 1, Len(at) - 1), Tail(cs))
    ELSE walk(Append(at, Head(cs)), Tail(cs))

\* What a path names: a directory, a regular file, nothing yet (its parent
\* is a directory), or nothing that could be (the walk failed, or a trailing
\* separator asks for a directory that is none).
resolve(files, file_path) ==
    LET w     == walk(<<>>, split(file_path, "/"))
        slash == file_path # <<>> /\ file_path[Len(file_path)] = "/"
    IN  IF ~w.ok THEN [kind |-> "error", key |-> w.key]
        ELSE IF w.key \in Dirs THEN [kind |-> "dir", key |-> w.key]
        ELSE IF slash THEN [kind |-> "error", key |-> w.key]
        ELSE IF w.key \in DOMAIN files THEN [kind |-> "file", key |-> w.key]
        ELSE IF SubSeq(w.key, 1, Len(w.key) - 1) \in Dirs
             THEN [kind |-> "absent", key |-> w.key]
        ELSE [kind |-> "error", key |-> w.key]

\* Path::exists
path_exists(files, file_path) ==
    resolve(files, file_path).kind \in {"dir", "file"}

\* fs::read: the content of a regular file that may be read.
fs_read(files, file_path) ==
    LET r == resolve(files, file_path)
    IN  IF r.kind = "file" /\ files[r.key].readable
        THEN Some(files[r.key].data) ELSE None

\* Whether open(path, O_WRONLY | O_CREAT | O_TRUNC) succeeds: on a regular
\* file that may be written, or on a new name in a directory that may be
\* written.  File::create and fs::write both open the file this way.
can_create(files, file_path) ==
    LET r == resolve(files, file_path)
    IN  \/ r.kind = "file" /\ files[r.key].writable
        \/ r.kind = "absent" /\ SubSeq(r.key, 1, Len(r.key) - 1) \in WritableDirs

\* fs_create opening without truncation: a file that is there keeps its
\* data.
fs_create_keeping_data(files, file_path) ==
    LET r == resolve(files, file_path)
    IN  IF r.kind = "file" THEN files
        ELSE (r.key :> [data |-> <<>>, readable |-> TRUE, writable |-> TRUE]) @@ files

\* The file system after that open succeeded: the file is there and empty.
fs_create(files, file_path) ==
    LET r == resolve(files, file_path)
    IN  IF r.kind = "file"
        THEN [files EXCEPT ![r.key].data = <<>>]
        ELSE (r.key :> [data |-> <<>>, readable |-> TRUE, writable |-> TRUE]) @@ files

\* fs_write_all on a file opened for appending: the bytes go after what the
\* file holds.
fs_write_all_appending(files, file_path, bytes) ==
    LET r == resolve(files, file_path)
        old == files[r.key].data
    IN  [files EXCEPT ![r.key].data = old \o bytes]

\* The file system after write_all on the file just opened: the bytes are
\* written from offset 0 of the file, over what the file holds there; what
\* it holds beyond them stays.
fs_write_all(files, file_path, bytes) ==
    LET r == resolve(files, file_path)
        old == files[r.key].data
    IN  [files EXCEPT ![r.key].data = bytes \o SubSeq(old, Len(bytes) + 1, Len(old))]

(***************************************************************************)
(* What clients send.  A request is the bytes that are in the socket when  *)
(* the worker reads.                                                       *)
(***************************************************************************)
S_DELETE == <<"D","E","L","E","T","E">>
S_ACCEPT_ENCODING ==
    <<"A","c","c","e","p","t","-","E","n","c","o","d","i","n","g">>
S_ACCEPT_ENCODING_UC ==
    <<"A","C","C","E","P","T","-","E","N","C","O","D","I","N","G">>
S_USER_AGENT_LC == <<"u","s","e","r","-","a","g","e","n","t">>
V_GZIP_UC == <<"G","Z","I","P">>
V_ZLIB_GZIP == <<"z","l","i","b",","," ","g","z","i","p">>
V_GZIP_ZLIB == <<"g","z","i","p",",","z","l","i","b">>
V_BR_ZLIB == <<"b","r",","," ","z","l","i","b">>
V_BR == <<"b","r">>
V_GZIP_Q == <<"g","z","i","p",";","q","=","1",".","0">>
V_PADDED == <<" ","z","l","i","b"," ",",","b","r">>
V_CURL == <<"c","u","r","l","/","8">>
V_WGET == <<"w","g","e","t">>
P_ECHO == <<"/","e","c","h","o">>
P_FILES == <<"/","f","i","l","e","s">>
P_ECHO_ABC == S_ECHO_PREFIX \o <<"a","b","c">>
P_ECHO_NESTED == S_ECHO_PREFIX \o <<"a","/","b","%","2","0","c">>
P_FILES_A == S_FILES_PREFIX \o <<"a">>
P_FILES_B == S_FILES_PREFIX \o <<"b">>
P_FILES_RO == S_FILES_PREFIX \o <<"r","o">>
P_FILES_WO == S_FILES_PREFIX \o <<"w","o">>
P_FILES_NODIR == S_FILES_PREFIX \o <<"n","o","d","i","r","/","f">>
P_UNKNOWN == <<"/","u","n","k","n","o","w","n","/","p","a","t","h">>
B_HELLO == <<"h","e","l","l","o">>
B_OLD == <<"o","l","d"," ","c","o","n","t","e","n","t">>
B_XY == <<"x","y">>

RequestLine(method, path) == method \o <<SP>> \o path \o <<SP>> \o S_HTTP11 \o CRLF

HeaderLine(name, value) == name \o <<":", SP>> \o value \o CRLF

\* A request with its header lines, the blank line and a body.
Request(method, path, header_lines, body) ==
    RequestLine(method, path) \o header_lines \o CRLF \o body

Methods == {S_GET, S_POST, S_DELETE}

Paths == {S_ROOT, S_USER_AGENT_PATH, P_ECHO, S_ECHO_PREFIX, P_ECHO_ABC,
          P_ECHO_NESTED, P_FILES, S_FILES_PREFIX, P_FILES_A, P_FILES_B,
          P_UNKNOWN}

AcceptEncodingValues == {S_GZIP, S_ZLIB, V_GZIP_UC, V_ZLIB_GZIP, V_GZIP_ZLIB,
                         V_BR_ZLIB, V_BR, V_GZIP_Q, V_PADDED, <<>>}

\* Every method on every path, with no header and an empty body.
PlainRequests == {Request(m, p, <<>>, <<>>) : m \in Methods, p \in Paths}

\* Requests whose request line is not three tokens: nothing read, two
\* tokens, four tokens, an empty first line, and a request line broken over
\* two lines.
R_TWO_TOKENS == S_GET \o <<SP>> \o S_ROOT \o CRLF \o CRLF
R_FOUR_TOKENS == RequestLine(S_GET \o <<SP>> \o S_GET, S_ROOT) \o CRLF
R_EMPTY_FIRST_LINE == CRLF \o Request(S_GET, S_ROOT, <<>>, <<>>)
R_POST_BROKEN_LINE ==
    S_POST \o <<SP>> \o P_FILES_B \o CRLF \o S_HTTP11 \o CRLF \o CRLF \o B_XY

MalformedRequests ==
    {<<>>, R_TWO_TOKENS, R_FOUR_TOKENS, R_EMPTY_FIRST_LINE, R_POST_BROKEN_LINE}

\* Accept-Encoding in every value, on the three routes that negotiate.
NegotiatingRequests ==
    {Request(S_GET, P_ECHO_ABC, HeaderLine(S_ACCEPT_ENCODING, v), <<>>) :
        v \in AcceptEncodingValues}
    \cup {Request(S_GET, S_ROOT, HeaderLine(S_ACCEPT_ENCODING, v), <<>>) :
            v \in {S_GZIP, V_BR_ZLIB}}
    \cup {Request(S_POST, P_ECHO_NESTED,
                  HeaderLine(S_ACCEPT_ENCODING_UC, S_ZLIB), B_XY)}

\* Two Accept-Encoding headers.
R_ECHO_BR_THEN_GZIP ==
    Request(S_GET, P_ECHO_ABC,
            HeaderLine(S_ACCEPT_ENCODING, V_BR) \o HeaderLine(S_ACCEPT_ENCODING, S_GZIP),
            <<>>)

RepeatedAcceptEncoding ==
    {Request(S_GET, P_ECHO_ABC,
             HeaderLine(S_ACCEPT_ENCODING, v1) \o HeaderLine(n2, v2), <<>>) :
        v1 \in {V_BR, S_ZLIB}, n2 \in {S_ACCEPT_ENCODING, S_ACCEPT_ENCODING_LC},
        v2 \in {S_GZIP}}

\* GET /user-agent with the header in either case, once or twice, with and
\* without Accept-Encoding.
UserAgentRequests ==
    {Request(S_GET, S_USER_AGENT_PATH, ua \o ae, <<>>) :
        ua \in {HeaderLine(S_USER_AGENT, V_CURL),
                HeaderLine(S_USER_AGENT_LC, V_CURL),
                HeaderLine(S_USER_AGENT_LC, V_WGET) \o HeaderLine(S_USER_AGENT, V_CURL),
                HeaderLine(S_USER_AGENT, V_WGET) \o HeaderLine(S_USER_AGENT, V_CURL)},
        ae \in {<<>>, HeaderLine(S_ACCEPT_ENCODING, S_GZIP)}}
    \cup {Request(S_GET, S_USER_AGENT_PATH, HeaderLine(S_ACCEPT_ENCODING, S_GZIP), <<>>),
          Request(S_POST, S_USER_AGENT_PATH, HeaderLine(S_USER_AGENT, V_CURL), <<>>)}

\* The /files/ routes: reads and writes of files that are there, are not
\* there, may not be read or written or cannot be created; a POST whose
\* bytes hold no blank line; requests that offer an encoding.
FileRequests ==
    {Request(S_POST, p, <<>>, b) :
        p \in {P_FILES_A, P_FILES_B, P_FILES_RO, P_FILES_NODIR},
        b \in {B_XY, B_HELLO}}
    \cup {Request(S_GET, p, <<>>, <<>>) : p \in {P_FILES_RO, P_FILES_WO, P_FILES_NODIR}}
    \cup {RequestLine(S_POST, p) : p \in {P_FILES_A, P_FILES_B, P_FILES_NODIR}}
    \cup {Request(m, P_FILES_A, HeaderLine(S_ACCEPT_ENCODING, S_GZIP), B_XY) :
            m \in Methods}
    \cup {Request(S_POST, S_FILES_PREFIX, <<>>, B_XY)}

\* Requests whose Content-Length is less and more than the bytes that follow
\* the blank line, and whose body holds a blank line itself.
B_X_BLANK_Y == <<"x">> \o CRLF \o CRLF \o <<"y">>
R_POST_SHORT_LENGTH ==
    Request(S_POST, P_ECHO_ABC, HeaderLine(S_CONTENT_LENGTH, <<"1">>), B_X_BLANK_Y)
R_POST_LONG_LENGTH ==
    Request(S_POST, P_ECHO_ABC, HeaderLine(S_CONTENT_LENGTH, <<"9">>), B_XY)

BodyRequests ==
    {R_POST_SHORT_LENGTH, R_POST_LONG_LENGTH,
     Request(S_GET, P_ECHO_ABC, HeaderLine(S_CONTENT_LENGTH, <<"0">>), <<>>)}

\* A request of more bytes than the read buffer holds: a POST whose body
\* runs past the buffer.
LongLen == 1100
B_LONG == [i \in 1..LongLen |-> "x"]
R_POST_LONG_BODY == Request(S_POST, P_FILES_B, <<>>, B_LONG)

LongRequests == {R_POST_LONG_BODY}

\* File names that are an absolute path, and that climb out of the
\* directory with "..".
P_FILES_ABS_TMP_X == S_FILES_PREFIX \o <<"/","t","m","p","/","x">>
P_FILES_UP_TMP_X == S_FILES_PREFIX \o <<".",".","/","t","m","p","/","x">>

TraversalRequests ==
    {Request(m, p, <<>>, B_XY) :
        m \in {S_GET, S_POST}, p \in {P_FILES_ABS_TMP_X, P_FILES_UP_TMP_X}}

\* A request whose lines end in a bare line feed.
BareLineFeedRequests ==
    {S_GET \o <<SP>> \o P_ECHO_ABC \o <<SP>> \o S_HTTP11 \o <<LF>>
         \o S_ACCEPT_ENCODING \o <<":">> \o S_GZIP \o <<LF, LF>> \o B_XY}

Requests ==
    PlainRequests \cup MalformedRequests \cup NegotiatingRequests
    \cup RepeatedAcceptEncoding \cup UserAgentRequests \cup FileRequests
    \cup BodyRequests \cup LongRequests \cup TraversalRequests
    \cup BareLineFeedRequests

(***************************************************************************)
(* The state                                                               *)
(***************************************************************************)
\* Worker threads that may be alive at once, and accept errors counted.
NumWorkers == 2
MaxAcceptErrors == 1

Workers == 1..NumWorkers

VARIABLES
    pool,           \* what a client may send on a connection
    cap,            \* how many connections are served at once
    fs,             \* the regular files: resolved path -> data and permissions
    workers,        \* the worker threads, one per accepted connection
    accept_errors,  \* the accept errors the listener has logged
    written         \* per file, the body of the POST that wrote it last, for
                    \* as long as nothing has written to the file since

vars == <<pool, cap, fs, workers, accept_errors, written>>

\* No response built yet.
NoResponse == HttpResponse_new(0, <<>>)

\* A worker's program counter is the statement it is at:
\*   "idle"       no thread             "read"      stream.read
\*   "serve_file" fs::read              "exists"    file_path.exists()
\*   "create"     fs::File::create      "open"      fs::write, opening
\*   "write_all"  fs::write, writing    "respond"   stream.write_all
\*   "done"       returned Ok(())       "failed"    returned Err(e)
\*   "panicked"   the thread panicked
\* and the rest is the locals of handle_client and handle_request, the bytes
\* the client has received, and two records of what the worker did: whether
\* it changed the file system, and what the file it read was known to hold.
IdleWorker ==
    [pc |-> "idle", raw |-> <<>>, req |-> ParseError, compression |-> NoScheme,
     route |-> "none", encoder_ok |-> TRUE, resp |-> NoResponse, sent |-> <<>>,
     touched |-> FALSE, expect |-> None]

\* The files at startup: three in the served directory, one that may be
\* read and written, one that may not be written and one that may not be
\* read, and a file outside it that may be read.
InitialFiles ==
    (<< <<"s","r","v">>, <<"a">> >>
        :> [data |-> B_OLD, readable |-> TRUE, writable |-> TRUE])
    @@ (<< <<"s","r","v">>, <<"r","o">> >>
        :> [data |-> B_OLD, readable |-> TRUE, writable |-> FALSE])
    @@ (<< <<"s","r","v">>, <<"w","o">> >>
        :> [data |-> B_OLD, readable |-> FALSE, writable |-> TRUE])
    @@ (<< <<"t","m","p">>, <<"x">> >>
        :> [data |-> B_HELLO, readable |-> TRUE, writable |-> FALSE])

InitCommon ==
    /\ fs = InitialFiles
    /\ workers = [w \in Workers |-> IdleWorker]
    /\ accept_errors = 0
    /\ written = <<>>

\* Connections served one after the other, each with any request.
Init == InitCommon /\ pool = Requests /\ cap = 1

file_path_of(w) == path_join(directory, filename_of(workers[w].req))

Forget(f, key) == [k \in DOMAIN f \ {key} |-> f[k]]

(***************************************************************************)
(* HttpServer::run                                                         *)
(***************************************************************************)
\* Accept with the listener's own thread running the handler: the next
\* connection is taken when the handler has returned.
Accept_after_handler(w) ==
    /\ workers[w].pc = "idle"
    /\ \A v \in Workers : workers[v].pc = "idle"
    /\ workers' = [workers EXCEPT ![w].pc = "read"]
    /\ UNCHANGED <<pool, cap, fs, accept_errors, written>>

\* listener.incoming() gives a connection: a thread is spawned for it.
Accept(w) ==
    /\ workers[w].pc = "idle"
    /\ Cardinality({v \in Workers : workers[v].pc # "idle"}) < cap
    /\ workers' = [workers EXCEPT ![w].pc = "read"]
    /\ UNCHANGED <<pool, cap, fs, accept_errors, written>>

\* listener.incoming() gives an error: it is logged and the loop goes on.
AcceptError ==
    /\ accept_errors < MaxAcceptErrors
    /\ accept_errors' = accept_errors + 1
    /\ UNCHANGED <<pool, cap, fs, workers, written>>

(***************************************************************************)
(* ConnectionHandler::handle_client                                        *)
(***************************************************************************)
\* stream.read fails: handle_client returns the error.
ReadError(w) ==
    /\ workers[w].pc = "read"
    /\ workers' = [workers EXCEPT ![w].pc = "failed"]
    /\ UNCHANGED <<pool, cap, fs, accept_errors, written>>

\* The worker's state after the read gave bytes, up to the first statement
\* that touches the file system or the socket: at most BUFFER_SIZE bytes are
\* taken (from_utf8_lossy leaves them as they are: the bytes clients send
\* here are ASCII), the request is parsed and, if that succeeds,
\* handle_request negotiates the encoding and calls the handler of the
\* first arm that matches.
\* handled with a read that gives all the bytes the client sent, however
\* many.
handled_reading_all(self, bytes, encoder_ok) ==
    LET raw == bytes
        req == parse_request(raw)
        compression == compression_scheme(req)
        route == handle_request(req)
        got == [self EXCEPT !.raw = raw, !.req = req, !.compression = compression,
                            !.route = route, !.encoder_ok = encoder_ok]
    IN  IF ~req.ok THEN [self EXCEPT !.raw = raw, !.pc = "failed"]
        ELSE IF route = "hello_world"
             THEN [got EXCEPT !.pc = "respond",
                              !.resp = hello_world(compression, encoder_ok)]
        ELSE IF route = "user_agent"
             THEN [got EXCEPT !.pc = "respond",
                              !.resp = user_agent(req, compression, encoder_ok)]
        ELSE IF route = "echo"
             THEN [got EXCEPT !.pc = "respond",
                              !.resp = echo(req.path, compression, encoder_ok)]
        ELSE IF route = "serve_file" THEN [got EXCEPT !.pc = "serve_file"]
        ELSE IF route = "create_file" THEN [got EXCEPT !.pc = "exists"]
        ELSE IF route = "method_not_allowed"
             THEN [got EXCEPT !.pc = "respond", !.resp = method_not_allowed]
        ELSE [got EXCEPT !.pc = "respond", !.resp = not_found]

handled(self, bytes, encoder_ok) ==
    LET raw == SubSeq(bytes, 1, IF Len(bytes) < BUFFER_SIZE THEN Len(bytes) ELSE BUFFER_SIZE)
        req == parse_request(raw)
        compression == compression_scheme(req)
        route == handle_request(req)
        got == [self EXCEPT !.raw = raw, !.req = req, !.compression = compression,
                            !.route = route, !.encoder_ok = encoder_ok]
    IN  IF ~req.ok THEN [self EXCEPT !.raw = raw, !.pc = "failed"]
        ELSE IF route = "hello_world"
             THEN [got EXCEPT !.pc = "respond",
                              !.resp = hello_world(compression, encoder_ok)]
        ELSE IF route = "user_agent"
             THEN [got EXCEPT !.pc = "respond",
                              !.resp = user_agent(req, compression, encoder_ok)]
        ELSE IF route = "echo"
             THEN [got EXCEPT !.pc = "respond",
                              !.resp = echo(req.path, compression, encoder_ok)]
        ELSE IF route = "serve_file" THEN [got EXCEPT !.pc = "serve_file"]
        ELSE IF route = "create_file" THEN [got EXCEPT !.pc = "exists"]
        ELSE IF route = "method_not_allowed"
             THEN [got EXCEPT !.pc = "respond", !.resp = method_not_allowed]
        ELSE [got EXCEPT !.pc = "respond", !.resp = not_found]

\* Whether handling these bytes runs an encoder: a scheme was negotiated and
\* the handler called builds its response with compress_response.
runs_encoder(bytes) ==
    LET got == handled(IdleWorker, bytes, TRUE)
    IN  /\ got.req.ok
        /\ got.compression # NoScheme
        /\ got.route \in {"hello_world", "user_agent", "echo"}
        /\ got.resp.status_code = 200

HandleClient(w) ==
    /\ workers[w].pc = "read"
    /\ \E bytes \in pool :
          \E encoder_ok \in IF runs_encoder(bytes) THEN BOOLEAN ELSE {TRUE} :
             workers' = [workers EXCEPT ![w] = handled(workers[w], bytes, encoder_ok)]
    /\ UNCHANGED <<pool, cap, fs, accept_errors, written>>

\* stream.write_all and flush succeed: the client has the response, and
\* handle_client returns Ok(()).
Respond(w) ==
    /\ workers[w].pc = "respond"
    /\ workers' = [workers EXCEPT ![w].pc = "done",
                                  ![w].sent = to_bytes(workers[w].resp)]
    /\ UNCHANGED <<pool, cap, fs, accept_errors, written>>

\* stream.write_all fails (the client has gone): handle_client returns the
\* error.
RespondError(w) ==
    /\ workers[w].pc = "respond"
    /\ workers' = [workers EXCEPT ![w].pc = "failed"]
    /\ UNCHANGED <<pool, cap, fs, accept_errors, written>>

\* The thread is over (it returned or it panicked); the stream was dropped,
\* which closed the connection.
Exit(w) ==
    /\ workers[w].pc \in {"done", "failed", "panicked"}
    /\ workers' = [workers EXCEPT ![w] = IdleWorker]
    /\ UNCHANGED <<pool, cap, fs, accept_errors, written>>

(***************************************************************************)
(* Router::serve_file                                                      *)
(***************************************************************************)
served(content) ==
    IF content.some
    THEN with_body(HttpResponse_new(200, S_OK), content.val, S_OCTET_STREAM)
    ELSE HttpResponse_new(404, S_NOT_FOUND)

\* ServeFile taking the file away as it reads it: a file that was read is
\* not there any more.
ServeFile_consuming(w) ==
    LET r == resolve(fs, file_path_of(w))
    IN  /\ workers[w].pc = "serve_file"
        /\ workers' = [workers EXCEPT
              ![w].pc = "respond",
              ![w].resp = served(fs_read(fs, file_path_of(w))),
              ![w].expect = IF r.key \in DOMAIN written THEN Some(written[r.key])
                            ELSE None]
        /\ fs' = IF fs_read(fs, file_path_of(w)).some THEN Forget(fs, r.key) ELSE fs
        /\ UNCHANGED <<pool, cap, accept_errors, written>>

ServeFile(w) ==
    LET key == resolve(fs, file_path_of(w)).key
    IN  /\ workers[w].pc = "serve_file"
        /\ workers' = [workers EXCEPT
              ![w].pc = "respond",
              ![w].resp = served(fs_read(fs, file_path_of(w))),
              ![w].expect = IF key \in DOMAIN written THEN Some(written[key])
                            ELSE None]
        /\ UNCHANGED <<pool, cap, fs, accept_errors, written>>

(***************************************************************************)
(* Router::create_file                                                     *)
(***************************************************************************)
\* match req.body.as_ref(): with no body the answer is 400; with one,
\* fs::write is next.
after_create(self) ==
    IF self.req.body.some THEN [self EXCEPT !.pc = "open"]
    ELSE [self EXCEPT !.pc = "respond",
                      !.resp = HttpResponse_new(400, S_BAD_REQUEST)]

\* if !file_path.exists()
CreateFileExists(w) ==
    /\ workers[w].pc = "exists"
    /\ workers' = [workers EXCEPT ![w] =
          IF path_exists(fs, file_path_of(w)) THEN after_create(workers[w])
          ELSE [workers[w] EXCEPT !.pc = "create"]]
    /\ UNCHANGED <<pool, cap, fs, accept_errors, written>>

\* fs::File::create succeeds: the file is there and empty.
CreateFileCreate(w) ==
    /\ workers[w].pc = "create"
    /\ can_create(fs, file_path_of(w))
    /\ fs' = fs_create(fs, file_path_of(w))
    /\ written' = Forget(written, resolve(fs, file_path_of(w)).key)
    /\ workers' = [workers EXCEPT ![w] = after_create([workers[w] EXCEPT !.touched = TRUE])]
    /\ UNCHANGED <<pool, cap, accept_errors>>

\* fs::File::create fails: expect panics, the thread unwinds and nothing is
\* written to the stream.
CreateFilePanic(w) ==
    /\ workers[w].pc = "create"
    /\ ~can_create(fs, file_path_of(w))
    /\ workers' = [workers EXCEPT ![w].pc = "panicked"]
    /\ UNCHANGED <<pool, cap, fs, accept_errors, written>>

\* fs::write opens the file, which empties it.
CreateFileOpen(w) ==
    /\ workers[w].pc = "open"
    /\ can_create(fs, file_path_of(w))
    /\ fs' = fs_create(fs, file_path_of(w))
    /\ written' = Forget(written, resolve(fs, file_path_of(w)).key)
    /\ workers' = [workers EXCEPT ![w].pc = "write_all", ![w].touched = TRUE]
    /\ UNCHANGED <<pool, cap, accept_errors>>

\* fs::write cannot open the file: Err(_) => 500.
CreateFileOpenError(w) ==
    /\ workers[w].pc = "open"
    /\ ~can_create(fs, file_path_of(w))
    /\ workers' = [workers EXCEPT
          ![w].pc = "respond",
          ![w].resp = HttpResponse_new(500, S_INTERNAL_SERVER_ERROR)]
    /\ UNCHANGED <<pool, cap, fs, accept_errors, written>>

\* fs::write writes the body: Ok(_) => 201.
CreateFileWriteAll(w) ==
    LET key == resolve(fs, file_path_of(w)).key
        now == fs_write_all(fs, file_path_of(w), workers[w].req.body.val)
    IN  /\ workers[w].pc = "write_all"
        /\ fs' = now
        /\ written' = (key :> workers[w].req.body.val) @@ Forget(written, key)
        /\ workers' = [workers EXCEPT ![w].pc = "respond",
                                      ![w].resp = HttpResponse_new(201, S_CREATED)]
        /\ UNCHANGED <<pool, cap, accept_errors>>

Next ==
    \/ AcceptError
    \/ \E w \in Workers :
          \/ Accept(w)
          \/ ReadError(w)
          \/ HandleClient(w)
          \/ ServeFile(w)
          \/ CreateFileExists(w)
          \/ CreateFileCreate(w)
          \/ CreateFilePanic(w)
          \/ CreateFileOpen(w)
          \/ CreateFileOpenError(w)
          \/ CreateFileWriteAll(w)
          \/ Respond(w)
          \/ RespondError(w)
          \/ Exit(w)

Spec == Init /\ [][Next]_vars

\* Connections served at once: as many as there are workers, each with one
\* of a few requests on /files/ that read and write the same files, write a
\* new one, and name files that cannot be written or created.
ConcRequests ==
    {Request(S_POST, P_FILES_A, <<>>, B_XY),
     Request(S_POST, P_FILES_A, <<>>, B_HELLO),
     Request(S_GET, P_FILES_A, <<>>, <<>>),
     RequestLine(S_POST, P_FILES_B),
     Request(S_POST, P_FILES_RO, <<>>, B_XY),
     Request(S_POST, P_FILES_NODIR, <<>>, B_XY)}

InitConc == InitCommon /\ pool = ConcRequests /\ cap = NumWorkers

SpecConc == InitConc /\ [][Next]_vars

(***************************************************************************)
(* What the client sees: the bytes of a response read back as HTTP.        *)
(***************************************************************************)
\* The offset of the blank line that ends the header section, or -1.
WireHeadEnd(bytes) == find(bytes, CRLF \o CRLF)

\* The bytes after the blank line.
WireBody(bytes) == SliceFrom(bytes, WireHeadEnd(bytes) + 4)

\* The lines before the blank line: the status line, then the header lines.
WireHeadLines(bytes) == lines(SubSeq(bytes, 1, WireHeadEnd(bytes)) \o CRLF)

\* The status code, as the digits of the status line's second token.
WireStatus(bytes) == split_whitespace(Head(WireHeadLines(bytes)))[2]

\* The value of the first header line with this name, if there is one.
WireHeader(bytes, name) ==
    LET hs == Tail(WireHeadLines(bytes))
        Named(l) == starts_with(l, name \o <<":", SP>>)
        k == first_of({i \in DOMAIN hs : Named(hs[i])})
    IN  IF k = 0 THEN None ELSE Some(SliceFrom(hs[k], Len(name) + 2))

\* A complete response: a status line "HTTP/1.1 <code> <message>", header
\* lines "<name>: <value>", a blank line, a body.
WellFormedResponse(bytes) ==
    /\ WireHeadEnd(bytes) >= 0
    /\ LET status == split_whitespace(Head(WireHeadLines(bytes)))
           hs     == Tail(WireHeadLines(bytes))
       IN  /\ Len(status) >= 3
           /\ status[1] = S_HTTP11
           /\ Len(status[2]) = 3
           /\ \A i \in DOMAIN hs : find(hs[i], <<":", SP>>) > 0

\* The worker's thread is over and the client got the whole response.
Answered(w) == workers[w].pc = "done"

\* The worker's thread is over otherwise than by an error of the socket.
Over(w) ==
    \/ workers[w].pc \in {"done", "panicked"}
    \/ workers[w].pc = "failed" /\ ~workers[w].req.ok

\* The bytes a body is sent as: itself, or its compressed form under the
\* scheme the response's Content-Encoding names.
SentAs(content, resp_bytes) ==
    LET ce == WireHeader(resp_bytes, S_CONTENT_ENCODING)
    IN  IF ~ce.some THEN content
        ELSE IF ce.val = S_GZIP THEN compress(content, Gzip)
        ELSE compress(content, Zlib)

(***************************************************************************)
(* C1                                                                      *)
(***************************************************************************)
\* C1, as stated: every response the server writes carries a Content-Length
\* header whose value is the number of body bytes sent after the blank line.
C1_EveryResponseHasContentLength ==
    \A w \in Workers :
        Answered(w) =>
            LET cl == WireHeader(workers[w].sent, S_CONTENT_LENGTH)
            IN  /\ cl.some
                /\ cl.val = to_string(Len(WireBody(workers[w].sent)))

\* C1, amended: a Content-Length header, where a response carries one, gives
\* the number of body bytes sent after the blank line, counted after
\* compression; every 200 response carries one; the responses built without
\* a body (201, 400, 404, 405, 500) carry none and send no body byte.
C1_ContentLengthIsBodyLength ==
    \A w \in Workers :
        Answered(w) =>
            LET cl   == WireHeader(workers[w].sent, S_CONTENT_LENGTH)
                body == WireBody(workers[w].sent)
            IN  /\ cl.some => cl.val = to_string(Len(body))
                /\ cl.some <=> WireStatus(workers[w].sent) = <<"2","0","0">>
                /\ ~cl.some => body = <<>>
                /\ workers[w].route \in {"hello_world", "user_agent", "echo",
                                         "serve_file", "create_file"}
                       => WellFormedResponse(workers[w].sent)

\* C1's case: a compressed response has been sent, its body longer than the
\* text it encodes, its Content-Length the length sent.
C1_Witness ==
    \E w \in Workers :
        /\ Answered(w)
        /\ workers[w].req.path = P_ECHO_ABC
        /\ WireHeader(workers[w].sent, S_CONTENT_ENCODING) = Some(S_GZIP)
        /\ Len(WireBody(workers[w].sent)) = 21
        /\ WireHeader(workers[w].sent, S_CONTENT_LENGTH) = Some(<<"2","1">>)

(***************************************************************************)
(* C2                                                                      *)
(***************************************************************************)
\* The rule of the dispatch table that a request falls under: the first of
\* the five whose pattern the method and path match.
C2_Rule(method, path) ==
    LET Matches(k) ==
            CASE k = 1 -> method = S_GET /\ path = S_ROOT
              [] k = 2 -> method = S_GET /\ path = S_USER_AGENT_PATH
              [] k = 3 -> starts_with(path, S_ECHO_PREFIX)
              [] k = 4 -> starts_with(path, S_FILES_PREFIX)
              [] k = 5 -> TRUE
    IN  CHOOSE k \in 1..5 : Matches(k) /\ \A j \in 1..(k - 1) : ~Matches(j)

\* The worker's request went to the handler of its rule and, once answered,
\* got that rule's status and body.  verbatim says whether the echo body
\* must be the path suffix itself.
C2_Dispatched(w, verbatim) ==
    LET method == workers[w].req.method
        path   == workers[w].req.path
        route  == workers[w].route
        sent   == workers[w].sent
        rule   == C2_Rule(method, path)
        suffix == SubSeq(path, 7, Len(path))
    IN  route # "none" =>
        /\ rule = 1 =>
              /\ route = "hello_world"
              /\ Answered(w) => /\ WireStatus(sent) = <<"2","0","0">>
                                /\ WireBody(sent) = SentAs(S_HELLO, sent)
        /\ rule = 2 => route = "user_agent"
        /\ rule = 3 =>
              /\ route = "echo"
              /\ Answered(w) =>
                    /\ WireStatus(sent) = <<"2","0","0">>
                    /\ WireBody(sent) = IF verbatim THEN suffix
                                        ELSE SentAs(suffix, sent)
        /\ rule = 4 =>
              /\ method = S_GET => route = "serve_file"
              /\ method = S_POST => route = "create_file"
              /\ method \notin {S_GET, S_POST} =>
                    /\ route = "method_not_allowed"
                    /\ Answered(w) => /\ WireStatus(sent) = <<"4","0","5">>
                                      /\ WireBody(sent) = <<>>
        /\ rule = 5 =>
              /\ route = "not_found"
              /\ Answered(w) => /\ WireStatus(sent) = <<"4","0","4">>
                                /\ WireBody(sent) = <<>>

\* C2, as stated: dispatch is first match wins over the five rules, and the
\* body of an echo response is the path suffix, verbatim.
C2_DispatchEchoVerbatim == \A w \in Workers : C2_Dispatched(w, TRUE)

\* C2, amended: dispatch is first match wins over the five rules; the body
\* of an echo response is the path suffix, sent compressed when the response
\* carries Content-Encoding.
C2_DispatchOrder == \A w \in Workers : C2_Dispatched(w, FALSE)

\* C2's case: a POST to /echo/ with further slashes in the suffix was
\* answered 200, compressed.
C2_Witness ==
    \E w \in Workers :
        /\ Answered(w)
        /\ workers[w].req.method = S_POST
        /\ workers[w].req.path = P_ECHO_NESTED
        /\ WireStatus(workers[w].sent) = <<"2","0","0">>
        /\ WireHeader(workers[w].sent, S_CONTENT_ENCODING) = Some(S_ZLIB)

(***************************************************************************)
(* C3, C4                                                                  *)
(***************************************************************************)
\* C3: a connection whose request line parsed gets one complete response
\* before it closes, and only a request that did not parse is closed with
\* no byte written.
C3_ParsedRequestsAreAnswered ==
    \A w \in Workers :
        Over(w) =>
            /\ workers[w].req.ok => WellFormedResponse(workers[w].sent)
            /\ workers[w].sent = <<>> => ~workers[w].req.ok

\* C4: a POST to /files/ whose file is not there and cannot be created is
\* answered 500 Internal Server Error.
C4_CreationFailureIsAnswered500 ==
    \A w \in Workers :
        (/\ Over(w)
         /\ workers[w].route = "create_file"
         /\ ~path_exists(fs, file_path_of(w))
         /\ ~can_create(fs, file_path_of(w)))
        => /\ WellFormedResponse(workers[w].sent)
           /\ WireStatus(workers[w].sent) = <<"5","0","0">>

(***************************************************************************)
(* C5                                                                      *)
(***************************************************************************)
\* The first line of the bytes read, and the number of tokens in a text: the
\* places where a character that is no whitespace starts the text or follows
\* whitespace.
C5_FirstLine(raw) ==
    LET k == find(raw, <<LF>>) IN IF k < 0 THEN raw ELSE SubSeq(raw, 1, k)

C5_Tokens(s) ==
    Cardinality({i \in 1..Len(s) :
        ~IsWhitespace(s[i]) /\ (i = 1 \/ IsWhitespace(s[i - 1]))})

\* C5: when the first line read is not exactly three tokens, handle_client
\* returns the parse error: the router was not called, no response was
\* built, the worker changed no file, and no byte was written.
C5_MalformedRequestLineIsDropped ==
    \A w \in Workers :
        (/\ workers[w].pc \notin {"idle", "read"}
         /\ C5_Tokens(C5_FirstLine(workers[w].raw)) # 3)
        => /\ workers[w].pc = "failed"
           /\ workers[w].route = "none"
           /\ workers[w].resp = NoResponse
           /\ ~workers[w].touched
           /\ workers[w].sent = <<>>

\* C5's case: a POST to /files/b with a body, its request line broken over
\* two lines, was read and dropped, and b was not created.
C5_Witness ==
    \E w \in Workers :
        /\ workers[w].pc = "failed"
        /\ workers[w].raw = R_POST_BROKEN_LINE
        /\ ~path_exists(fs, path_join(directory, <<"b">>))

(***************************************************************************)
(* C6                                                                      *)
(***************************************************************************)
\* The client's tokens as a set, and the scheme the claim gives for a set.
C6_TokenSet(value) ==
    LET pieces == split(value, ",")
    IN  {to_lowercase(trim(pieces[i])) : i \in DOMAIN pieces}

C6_Selected(tokens) ==
    IF S_GZIP \in tokens THEN Gzip
    ELSE IF S_ZLIB \in tokens THEN Zlib
    ELSE NoScheme

\* The pieces put together again with commas.
RECURSIVE C6_Join(_)
C6_Join(pieces) ==
    IF Len(pieces) = 1 THEN Head(pieces)
    ELSE Head(pieces) \o <<",">> \o C6_Join(Tail(pieces))

\* The header values with the same tokens in every other order.
C6_Reorderings(value) ==
    LET pieces == split(value, ",")
    IN  {C6_Join([i \in DOMAIN pieces |-> pieces[f[i]]]) :
            f \in Permutations(DOMAIN pieces)}

\* The value of the first header named accept-encoding in any case.
C6_AcceptEncoding(req) ==
    LET ks == {i \in DOMAIN req.headers :
                  to_lowercase(req.headers[i][1]) = S_ACCEPT_ENCODING_LC}
    IN  IF ks = {} THEN None
        ELSE Some(req.headers[CHOOSE i \in ks : \A j \in ks : i <= j][2])

\* C6: the scheme negotiated from an Accept-Encoding value is Gzip when the
\* set of its trimmed, lowercased tokens holds "gzip", else Zlib when it
\* holds "zlib", else none, and it is the same for the tokens in any order.
C6_NegotiationBySet ==
    \A w \in Workers :
        LET ae == C6_AcceptEncoding(workers[w].req)
        IN  (workers[w].route # "none" /\ ae.some) =>
               /\ workers[w].compression = C6_Selected(C6_TokenSet(ae.val))
               /\ \A v \in C6_Reorderings(ae.val) :
                     negotiate_compression(v) = workers[w].compression

\* C6's case: "zlib, gzip" was negotiated and answered with gzip.
C6_Witness ==
    \E w \in Workers :
        /\ Answered(w)
        /\ C6_AcceptEncoding(workers[w].req) = Some(V_ZLIB_GZIP)
        /\ workers[w].compression = Gzip
        /\ WireHeader(workers[w].sent, S_CONTENT_ENCODING) = Some(S_GZIP)

(***************************************************************************)
(* C7                                                                      *)
(***************************************************************************)
\* The text a text-producing route answers with.
C7_Text(w) ==
    LET req == workers[w].req
        uas == {i \in DOMAIN req.headers : req.headers[i][1] = S_USER_AGENT}
    IN  IF workers[w].route = "hello_world" THEN S_HELLO
        ELSE IF workers[w].route = "echo" THEN SubSeq(req.path, 7, Len(req.path))
        ELSE req.headers[CHOOSE i \in uas : \A j \in uas : i <= j][2]

\* C7: a response carries Content-Encoding exactly when it is a 200 of a
\* text-producing route, a scheme was negotiated and the encoder succeeded;
\* the header then names the scheme and the body is the compressed text.
\* File responses and error responses carry no Content-Encoding and are
\* sent as they are.
C7_ContentEncodingOnlyOnCompressedText ==
    \A w \in Workers :
        Answered(w) =>
            LET sent == workers[w].sent
                ce   == WireHeader(sent, S_CONTENT_ENCODING)
                text == /\ workers[w].route \in {"hello_world", "user_agent", "echo"}
                        /\ WireStatus(sent) = <<"2","0","0">>
            IN  /\ ce.some <=> (/\ text
                                /\ workers[w].compression # NoScheme
                                /\ workers[w].encoder_ok)
                /\ ce.some =>
                      /\ ce.val = (IF workers[w].compression = Gzip
                                   THEN S_GZIP ELSE S_ZLIB)
                      /\ WireBody(sent) = compress(C7_Text(w), workers[w].compression)
                /\ (text /\ ~ce.some) => WireBody(sent) = C7_Text(w)
                /\ (workers[w].route = "serve_file"
                        /\ WireStatus(sent) = <<"2","0","0">>)
                      => Some(WireBody(sent)) = fs_read(fs, file_path_of(w))
                /\ WireStatus(sent) # <<"2","0","0">> => WireBody(sent) = <<>>

\* C7's case: a file was served to a request that offered gzip, without
\* Content-Encoding.
C7_Witness ==
    \E w \in Workers :
        /\ Answered(w)
        /\ workers[w].route = "serve_file"
        /\ workers[w].compression = Gzip
        /\ WireStatus(workers[w].sent) = <<"2","0","0">>
        /\ ~WireHeader(workers[w].sent, S_CONTENT_ENCODING).some

(***************************************************************************)
(* C8                                                                      *)
(***************************************************************************)
\* C8: the scheme of a request is the one negotiated from its first header
\* named accept-encoding in any case, and none when there is no such header;
\* with no scheme from that header the response is not compressed, whatever
\* a later header offers.
C8_FirstAcceptEncodingDecides ==
    \A w \in Workers :
        LET ae     == C6_AcceptEncoding(workers[w].req)
            scheme == IF ae.some THEN C6_Selected(C6_TokenSet(ae.val)) ELSE NoScheme
        IN  workers[w].route # "none" =>
               /\ workers[w].compression = scheme
               /\ (Answered(w) /\ scheme = NoScheme) =>
                     ~WireHeader(workers[w].sent, S_CONTENT_ENCODING).some

\* C8's case: "Accept-Encoding: br" followed by "Accept-Encoding: gzip" was
\* answered with the text as it is.
C8_Witness ==
    \E w \in Workers :
        /\ Answered(w)
        /\ workers[w].raw = R_ECHO_BR_THEN_GZIP
        /\ ~WireHeader(workers[w].sent, S_CONTENT_ENCODING).some
        /\ WireBody(workers[w].sent) = <<"a","b","c">>

(***************************************************************************)
(* C9                                                                      *)
(***************************************************************************)
\* GET /user-agent was answered from the first header named exactly
\* User-Agent, or with 400 when there is none.  verbatim says whether the
\* body must be the header's value itself.
C9_Reflected(w, verbatim) ==
    LET req  == workers[w].req
        sent == workers[w].sent
        uas  == {i \in DOMAIN req.headers : req.headers[i][1] = S_USER_AGENT}
        ua   == req.headers[CHOOSE i \in uas : \A j \in uas : i <= j][2]
    IN  (Answered(w) /\ req.method = S_GET /\ req.path = S_USER_AGENT_PATH) =>
           IF uas # {}
           THEN /\ WireStatus(sent) = <<"2","0","0">>
                /\ WireBody(sent) = IF verbatim THEN ua ELSE SentAs(ua, sent)
           ELSE /\ WireStatus(sent) = <<"4","0","0">>
                /\ WireBody(sent) = <<>>
                /\ ~WireHeader(sent, S_CONTENT_ENCODING).some

\* C9, as stated: the 200 response's body is the header's value.
C9_UserAgentVerbatim == \A w \in Workers : C9_Reflected(w, TRUE)

\* C9, amended: the 200 response's body is the header's value, sent
\* compressed when the response carries Content-Encoding.
C9_UserAgentReflected == \A w \in Workers : C9_Reflected(w, FALSE)

\* C9's case: "user-agent: wget" before "User-Agent: curl/8" was answered
\* with curl/8.
C9_Witness ==
    \E w \in Workers :
        /\ Answered(w)
        /\ workers[w].req.path = S_USER_AGENT_PATH
        /\ workers[w].req.headers =
              << <<S_USER_AGENT_LC, V_WGET>>, <<S_USER_AGENT, V_CURL>> >>
        /\ WireStatus(workers[w].sent) = <<"2","0","0">>
        /\ WireBody(workers[w].sent) = V_CURL

C11_WriteSucceeded(w) ==
    LET r == resolve(fs, file_path_of(w))
    IN  /\ workers[w].req.body.some
        /\ r.kind = "file"
        /\ fs[r.key].writable
        /\ fs[r.key].data = workers[w].req.body.val

\* C11: a POST to /files/<name> is answered 201 exactly when the request
\* carried a body and the write succeeded, 400 exactly when it carried no
\* body, 500 exactly when it carried a body and the write failed, each with
\* an empty body.
C11_PostStatusByBodyAndWrite ==
    \A w \in Workers :
        (Over(w) /\ workers[w].route = "create_file") =>
            /\ WellFormedResponse(workers[w].sent)
            /\ WireBody(workers[w].sent) = <<>>
            /\ WireStatus(workers[w].sent) = <<"2","0","1">>
                  <=> C11_WriteSucceeded(w)
            /\ WireStatus(workers[w].sent) = <<"4","0","0">>
                  <=> ~workers[w].req.body.some
            /\ WireStatus(workers[w].sent) = <<"5","0","0">>
                  <=> (workers[w].req.body.some /\ ~C11_WriteSucceeded(w))

\* C11 where the file is there or can be made: the three answers are as
\* claimed.
C11_PostStatusWhenCreatable ==
    \A w \in Workers :
        (/\ Over(w)
         /\ workers[w].route = "create_file"
         /\ workers[w].pc # "panicked")
        => /\ WellFormedResponse(workers[w].sent)
           /\ WireBody(workers[w].sent) = <<>>
           /\ WireStatus(workers[w].sent) = <<"2","0","1">>
                 <=> C11_WriteSucceeded(w)
           /\ WireStatus(workers[w].sent) = <<"4","0","0">>
                 <=> ~workers[w].req.body.some
           /\ WireStatus(workers[w].sent) = <<"5","0","0">>
                 <=> (workers[w].req.body.some /\ ~C11_WriteSucceeded(w))

(***************************************************************************)
(* C12                                                                     *)
(***************************************************************************)
\* C12: whatever the other workers are at (blocked in read, returned with an
\* error, panicked in File::create) and however many accept errors were
\* logged, the listener can take the next connection: it waits for no
\* connection's handler.
C12_ListenerKeepsAccepting ==
    \A w \in Workers : workers[w].pc = "idle" => ENABLED Accept(w)

\* C12's case: after an accept error, with one worker panicked in
\* File::create and not gone yet, another connection was answered.
C12_Witness ==
    \E v, w \in Workers :
        /\ workers[v].pc = "panicked"
        /\ accept_errors > 0
        /\ Answered(w)
        /\ WellFormedResponse(workers[w].sent)

\* C12's other cases: a connection was answered while another worker had
\* not got a byte to read, or had returned with an error of its socket.
C12_WitnessSilentClient ==
    \E v, w \in Workers :
        /\ workers[v].pc \in {"read", "failed"}
        /\ Answered(w)
        /\ WellFormedResponse(workers[w].sent)

(***************************************************************************)
(* C13                                                                     *)
(***************************************************************************)
\* The offsets in raw, from 1, at which a "\r\n\r\n" starts.
C13_Separators(raw) ==
    {i \in 1..(Len(raw) - 3) : SubSeq(raw, i, i + 3) = <<CR, LF, CR, LF>>}

\* A token: not empty, and no whitespace in it.
C13_IsToken(s) == s # <<>> /\ \A i \in DOMAIN s : ~IsWhitespace(s[i])

\* C13: the body of a parsed request is None if and only if the bytes read
\* hold no "\r\n\r\n"; otherwise it is everything after the first one,
\* whatever Content-Length says; and the request has one method and one
\* path, the first two tokens of its first line.
C13_BodyIsRemainder ==
    \A w \in Workers :
        LET raw  == workers[w].raw
            req  == workers[w].req
            seps == C13_Separators(raw)
            k    == CHOOSE i \in seps : \A j \in seps : i <= j
        IN  req.ok =>
               /\ req.body.some <=> seps # {}
               /\ seps # {} => req.body.val = SubSeq(raw, k + 4, Len(raw))
               /\ C13_IsToken(req.method)
               /\ C13_IsToken(req.path)
               /\ \E a, b \in 0..Len(raw) :
                     /\ \A i \in 1..a : IsWhitespace(raw[i])
                     /\ SubSeq(raw, a + 1, a + Len(req.method)) = req.method
                     /\ b > a + Len(req.method)
                     /\ \A i \in (a + Len(req.method) + 1)..b : IsWhitespace(raw[i])
                     /\ SubSeq(raw, b + 1, b + Len(req.path)) = req.path

\* C13's case: a request with Content-Length: 1 and six bytes after the
\* blank line, a blank line among them, was answered, and its body is all
\* six.
C13_Witness ==
    \E w \in Workers :
        /\ Answered(w)
        /\ workers[w].raw = R_POST_SHORT_LENGTH
        /\ workers[w].req.headers = << <<S_CONTENT_LENGTH, <<"1">> >> >>
        /\ workers[w].req.body = Some(B_X_BLANK_Y)
        /\ WireStatus(workers[w].sent) = <<"2","0","0">>

(***************************************************************************)
(* C14                                                                     *)
(***************************************************************************)
\* What one read into the buffer gives of the bytes in the socket.
C14_Prefix(bytes) ==
    IF Len(bytes) <= BUFFER_SIZE THEN bytes ELSE SubSeq(bytes, 1, BUFFER_SIZE)

\* C14: what a worker handles is the first BUFFER_SIZE bytes at most of what
\* the client sent; the request is that prefix parsed and routed as any
\* request is, and a POST of it that is answered 201 has stored the body of
\* the prefix.
C14_TruncatedPrefixIsTheRequest ==
    \A w \in Workers :
        LET raw == workers[w].raw
            req == workers[w].req
        IN  workers[w].pc \notin {"idle", "read"} =>
               /\ Len(raw) <= BUFFER_SIZE
               /\ \E bytes \in pool : raw = C14_Prefix(bytes)
               /\ req = parse_request(raw)
               /\ req.ok => /\ workers[w].route = handle_request(req)
                            /\ workers[w].compression = compression_scheme(req)
               /\ (/\ Answered(w)
                   /\ workers[w].route = "create_file"
                   /\ WireStatus(workers[w].sent) = <<"2","0","1">>)
                  => fs_read(fs, file_path_of(w)) = req.body

\* C14's case: a POST whose body runs past the buffer was answered 201 and
\* the file holds the part of the body that was read.
C14_Witness ==
    \E w \in Workers :
        /\ Answered(w)
        /\ Len(R_POST_LONG_BODY) > BUFFER_SIZE
        /\ workers[w].raw = SubSeq(R_POST_LONG_BODY, 1, BUFFER_SIZE)
        /\ WireStatus(workers[w].sent) = <<"2","0","1">>
        /\ fs_read(fs, file_path_of(w)).some
        /\ Len(fs_read(fs, file_path_of(w)).val) < LongLen
        /\ fs_read(fs, file_path_of(w)).val
              = SubSeq(B_LONG, 1, BUFFER_SIZE - (Len(R_POST_LONG_BODY) - LongLen))

(***************************************************************************)
(* C15                                                                     *)
(***************************************************************************)
\* The response to the bytes worker w read, were they handled again now,
\* against the files as they are, with the encoder ending as it did.
C15_Again(w) ==
    LET got == handled(IdleWorker, workers[w].raw, workers[w].encoder_ok)
    IN  IF got.route = "serve_file" THEN served(fs_read(fs, file_path_of(w)))
        ELSE got.resp

C16_Created(w) ==
    /\ Answered(w)
    /\ workers[w].route = "create_file"
    /\ WireStatus(workers[w].sent) = <<"2","0","1">>

\* Two workers whose POSTs to the same file were both answered 201.
C16_BothCreated(v, w) ==
    /\ v # w
    /\ C16_Created(v)
    /\ C16_Created(w)
    /\ resolve(fs, file_path_of(v)).key = resolve(fs, file_path_of(w)).key

\* C16, as stated: when two POSTs to the same file have both been answered
\* 201, the file is there and holds exactly the body of one of them.
C16_LastWriterWins ==
    \A v, w \in Workers :
        C16_BothCreated(v, w) =>
            /\ fs_read(fs, file_path_of(w)).some
            /\ fs_read(fs, file_path_of(w)).val
                  \in {workers[v].req.body.val, workers[w].req.body.val}

\* C16, amended: when two POSTs to the same file have both been answered 201
\* and no POST has opened the file since the last write to it, the file is
\* there and begins with the body that was written last; what follows it, if
\* anything, was written by another POST after the last writer had opened
\* the file.
C16_LastWrittenBodyIsPrefix ==
    \A v, w \in Workers :
        LET key == resolve(fs, file_path_of(w)).key
        IN  (C16_BothCreated(v, w) /\ key \in DOMAIN written) =>
               /\ key \in DOMAIN fs
               /\ starts_with(fs[key].data, written[key])

\* C16's case: POSTs of "hello" and of "xy" to /files/a were both answered
\* 201 and the file holds "xyllo".
C16_Witness ==
    \E v, w \in Workers :
        /\ C16_BothCreated(v, w)
        /\ workers[v].req.body = Some(B_HELLO)
        /\ workers[w].req.body = Some(B_XY)
        /\ resolve(fs, file_path_of(w)).key \in DOMAIN written
        /\ written[resolve(fs, file_path_of(w)).key] = B_XY
        /\ fs_read(fs, file_path_of(w)) = Some(<<"x","y","l","l","o">>)

(***************************************************************************)
(* C17                                                                     *)
(***************************************************************************)
\* C17: when a scheme was negotiated on a text-producing route and the
\* encoder failed, the response is 200 with the text as it is, a
\* Content-Length of the text's length, content type text/plain and no
\* Content-Encoding.
C17_CompressionFailureFallsBack ==
    \A w \in Workers :
        (/\ Answered(w)
         /\ workers[w].compression # NoScheme
         /\ ~workers[w].encoder_ok)
        => /\ workers[w].route \in {"hello_world", "user_agent", "echo"}
           /\ WellFormedResponse(workers[w].sent)
           /\ WireStatus(workers[w].sent) = <<"2","0","0">>
           /\ WireBody(workers[w].sent) = C7_Text(w)
           /\ WireHeader(workers[w].sent, S_CONTENT_LENGTH)
                 = Some(to_string(Len(C7_Text(w))))
           /\ WireHeader(workers[w].sent, S_CONTENT_TYPE) = Some(S_TEXT_PLAIN)
           /\ ~WireHeader(workers[w].sent, S_CONTENT_ENCODING).some

\* C17's case: GET /echo/abc offering gzip, the encoder failing, was
\* answered 200 with "abc" and Content-Length: 3.
C17_Witness ==
    \E w \in Workers :
        /\ Answered(w)
        /\ workers[w].req.path = P_ECHO_ABC
        /\ workers[w].compression = Gzip
        /\ ~workers[w].encoder_ok
        /\ WireStatus(workers[w].sent) = <<"2","0","0">>
        /\ WireBody(workers[w].sent) = <<"a","b","c">>
        /\ WireHeader(workers[w].sent, S_CONTENT_LENGTH) = Some(<<"3">>)

(***************************************************************************)
(* C18                                                                     *)
(***************************************************************************)
\* C18: a POST to /files/ that was answered 400 changed no file: the worker
\* created none and emptied none.
C18_RejectedPostChangesNothing ==
    \A w \in Workers :
        (/\ Answered(w)
         /\ workers[w].route = "create_file"
         /\ WireStatus(workers[w].sent) = <<"4","0","0">>)
        => ~workers[w].touched

\* C18 for a file that was there: a POST to it that was answered 400 left it
\* as it was.
C18_RejectedPostKeepsExistingFile ==
    \A w \in Workers :
        (/\ Answered(w)
         /\ workers[w].route = "create_file"
         /\ WireStatus(workers[w].sent) = <<"4","0","0">>
         /\ resolve(InitialFiles, file_path_of(w)).kind = "file")
        => ~workers[w].touched

(***************************************************************************)
(* C19                                                                     *)
(***************************************************************************)
\* The file named by this resolved path is in the served directory or below
\* it.
C19_Inside(key) ==
    LET root == walk(<<>>, split(directory, "/")).key
    IN  Len(key) > Len(root) /\ SubSeq(key, 1, Len(root)) = root

\* C19: every file a GET of /files/ was answered 200 from, and every file a
\* POST to /files/ created, emptied or wrote, is in the served directory.
C19_DirectoryConfinement ==
    \A w \in Workers :
        (\/ /\ Answered(w)
            /\ workers[w].route \in {"serve_file", "create_file"}
            /\ WireStatus(workers[w].sent) \in {<<"2","0","0">>, <<"2","0","1">>}
         \/ workers[w].touched)
        => C19_Inside(resolve(fs, file_path_of(w)).key)

(***************************************************************************)
(* C20                                                                     *)
(***************************************************************************)
\* What the file of this path may hold whole: what it held at the start,
\* and the body of any POST to it that a client may send.
C20_WholeContents(file_path) ==
    LET r == resolve(InitialFiles, file_path)
    IN  (IF r.kind = "file" THEN {InitialFiles[r.key].data} ELSE {})
        \cup {parse_request(bytes).body.val : bytes \in
                 {b \in pool :
                     LET req == parse_request(C14_Prefix(b))
                     IN  /\ req.ok
                         /\ handle_request(req) = "create_file"
                         /\ req.body.some
                         /\ path_join(directory, filename_of(req)) = file_path}}

\* C20: a GET of /files/<name> that ran while a POST to the same file was
\* being handled, and was answered 200, was answered with what the file
\* held before some POST or with the body of a POST, whole.
C20_GetSeesWholeContent ==
    \A g, p \in Workers :
        (/\ Answered(g)
         /\ workers[g].route = "serve_file"
         /\ WireStatus(workers[g].sent) = <<"2","0","0">>
         /\ workers[p].route = "create_file"
         /\ workers[p].req.body.some
         /\ file_path_of(p) = file_path_of(g))
        => WireBody(workers[g].sent) \in C20_WholeContents(file_path_of(g))

====
